---- MODULE Spec2Model ----
(***************************************************************************)
(* A model of two subsystems of the Raven MUD driver:                      *)
(*   - the virtual filesystem of src/fs/file.c (file nodes, the registry   *)
(*     list, the child lists, path resolution, the blueprint and object    *)
(*     caches), and                                                        *)
(*   - the code writer of src/lang/codewriter.c (byte buffer, constant     *)
(*     pool, label table).                                                 *)
(* Pointers are node numbers, NULL is 0.  A freed block holds nothing: the *)
(* behaviour of a call that reads or writes one is undefined, and the      *)
(* model does not follow the program beyond it.                            *)
(***************************************************************************)
EXTENDS Integers, Sequences, FiniteSets, TLC

\* ------------------------------------------------------------------ bounds
MaxNodes      == 3   \* blocks of file memory besides the root's
MaxBlueprints == 2   \* blueprints blueprint_new may allocate
MaxObjects    == 2   \* objects object_new may allocate
MaxPathLen    == 3   \* characters of a path handed to file_resolve
MaxCached     == 1   \* nodes besides the root while the caches are exercised
MaxEmit       == 2   \* emitter calls in a compile without labels
MaxOps        == 5   \* code writer calls before finish in a compile with labels
MaxClimb      == 3   \* components of a path that climbs towards the root
PreFill       == 126 \* bytes already emitted when a compile near a full buffer starts

\* --------------------------------------------------------------- constants
NULL      == 0       \* the null pointer
FilesLink == 0       \* as a value of file->prev: the address of fs->files
Root      == 1       \* the node filesystem_root() returns

NUL == ""            \* the terminating '\0' of a C string

Nodes == 1 .. (MaxNodes + 1)

\* The names file_new is called with: non-empty, no '/', not "." or "..".
\* One is a proper prefix of the other.
Names == { <<"a">>, <<"a", "b">> }

\* The characters a path is made of.
PathChars == { "/", ".", "a", "b" }

RECURSIVE SeqsUpTo(_, _)
SeqsUpTo(S, n) ==
  IF n = 0 THEN { <<>> }
  ELSE LET shorter == SeqsUpTo(S, n - 1)
       IN  shorter \cup { Append(s, c) : s \in { t \in shorter : Len(t) = n - 1 }, c \in S }

Paths == SeqsUpTo(PathChars, MaxPathLen)

VARIABLES
  fs,     \* struct filesystem, the memory of every struct file, the heap
  made,   \* made[f]: the objects created for node f since file_new made it
  op,     \* the last operation: its name, its file argument, its result
  arg,    \* the path argument of the last file_resolve
  cw,     \* struct codewriter and its byte buffer
  hist,   \* what the compile has asked of the code writer so far
  cwop    \* the last code writer operation, its result, the function made

fsvars == << fs, made, op, arg >>
cwvars == << cw, hist, cwop >>
vars   == << fs, made, op, arg, cw, hist, cwop >>

\* ------------------------------------------------------------ file memory

\* str[i] of a C string, 0-based; the terminator follows the last character.
CharAt(str, i) == IF i < Len(str) THEN str[i + 1] ELSE NUL

\* A location holding a struct file*: <<0, 0>> is fs->files, <<0, p>> is
\* p->children, <<1, x>> is x->next.
Load(s, ptr) ==
  IF ptr[1] = 1 THEN s.next[ptr[2]]
  ELSE IF ptr[2] = FilesLink THEN s.files
  ELSE s.children[ptr[2]]

Store(s, ptr, v) ==
  IF ptr[1] = 1 THEN [s EXCEPT !.next[ptr[2]] = v]
  ELSE IF ptr[2] = FilesLink THEN [s EXCEPT !.files = v]
  ELSE [s EXCEPT !.children[ptr[2]] = v]

\* file->prev as a location: FilesLink is &fs->files, x is &x->next.
PrevLoc(p) == IF p = FilesLink THEN <<0, FilesLink>> ELSE <<1, p>>

\* memory_free: the block returns to the allocator.  What a freed block holds
\* is indeterminate and the model never reads it (every access to a freed
\* block is Undefined below), so the contents are not kept.
memory_free(s, file) ==
  [s EXCEPT !.alive     = @ \ {file},
            !.next[file]      = NULL,
            !.prev[file]      = FilesLink,
            !.parent[file]    = NULL,
            !.sibling[file]   = NULL,
            !.children[file]  = NULL,
            !.name[file]      = <<>>,
            !.blueprint[file] = NULL,
            !.object[file]    = NULL]

\* An access to the block of `file` when the allocator holds it (a use after
\* free, or the second free of a block): undefined behaviour.  The model
\* records that it happened and follows the call no further.
Undefined(s) == [s EXCEPT !.ub = TRUE]

\* The links a walk may follow before it is known to be in a cycle.
Fuel == 2 * (MaxNodes + 1)

file_new(s, file, parent, name) ==
  LET s1 == IF s.files # NULL THEN [s EXCEPT !.prev[s.files] = file] ELSE s
      s2 == [s1 EXCEPT !.next[file] = s1.files,
                       !.prev[file] = FilesLink,
                       !.files      = file,
                       !.alive      = @ \cup {file},
                       !.parent[file] = parent]
      s3 == IF parent # NULL
              THEN [s2 EXCEPT !.sibling[file]    = s2.children[parent],
                              !.children[parent] = file]
              ELSE s2
  IN  [s3 EXCEPT !.children[file]  = NULL,
                 !.blueprint[file] = NULL,
                 !.object[file]    = NULL,
                 !.name[file]      = name]

\* The while loop of file_unlink; ptr is the location it looks at.
RECURSIVE unlink_walk(_, _, _, _)
unlink_walk(s, ptr, file, n) ==
  LET cur == Load(s, ptr)
  IN  IF cur = NULL THEN s
      ELSE IF cur = file THEN Store(s, ptr, s.sibling[file])
      ELSE IF cur \notin s.alive THEN Undefined(s)
      ELSE IF n = 0 THEN [s EXCEPT !.hung = TRUE]
      ELSE unlink_walk(s, <<1, cur>>, file, n - 1)

file_unlink(s, file) ==
  IF s.parent[file] = NULL THEN s
  ELSE IF s.parent[file] \notin s.alive THEN Undefined(s)
  ELSE unlink_walk(s, <<0, s.parent[file]>>, file, Fuel)

\* The registry part of file_delete (lines 76-78).
registry_remove(s, file) ==
  LET nxt == s.next[file]
      prv == s.prev[file]
  IN  IF (nxt # NULL /\ nxt \notin s.alive) \/ (prv # FilesLink /\ prv \notin s.alive)
        THEN Undefined(s)
        ELSE LET s1 == IF nxt # NULL THEN [s EXCEPT !.prev[nxt] = prv] ELSE s
             IN  Store(s1, PrevLoc(prv), nxt)

RECURSIVE file_delete(_, _), delete_children(_, _)
delete_children(s, file) ==
  IF s.ub \/ s.hung \/ s.children[file] = NULL THEN s
  ELSE delete_children(file_delete(s, s.children[file]), file)

file_delete(s, file) ==
  IF file \notin s.alive THEN Undefined(s)
  ELSE
    LET s1 == delete_children(s, file)
        s2 == IF s1.ub \/ s1.hung THEN s1 ELSE file_unlink(s1, file)
        s3 == IF s2.ub \/ s2.hung THEN s2 ELSE registry_remove(s2, file)
    IN  IF s3.ub \/ s3.hung THEN s3 ELSE memory_free(s3, file)

\* ------------------------------------------------------- path resolution

\* What a call that reads a freed block returns: nothing the model follows.
UndefinedPtr == -1

\* path is the C string name + base.
RECURSIVE namecmp_loop(_, _, _, _)
namecmp_loop(name, base, fname, i) ==
  IF CharAt(fname, i) = NUL
    THEN CharAt(name, base + i) = NUL \/ CharAt(name, base + i) = "/"
  ELSE IF CharAt(fname, i) # CharAt(name, base + i) THEN FALSE
  ELSE namecmp_loop(name, base, fname, i + 1)

\* Mutant: what follows the name in the path is not looked at, so a name
\* that is a proper prefix of the component matches.
RECURSIVE namecmp_prefix_loop(_, _, _, _)
namecmp_prefix_loop(name, base, fname, i) ==
  IF CharAt(fname, i) = NUL THEN TRUE
  ELSE IF CharAt(fname, i) # CharAt(name, base + i) THEN FALSE
  ELSE namecmp_prefix_loop(name, base, fname, i + 1)

file_namecmp_prefix(name, base, fname) == namecmp_prefix_loop(name, base, fname, 0)

file_namecmp(name, base, fname) == namecmp_loop(name, base, fname, 0)

\* The for loop of file_resolve1 over the children of a node.
RECURSIVE resolve1_walk(_, _, _, _, _)
resolve1_walk(s, f, name, base, n) ==
  IF f = NULL THEN NULL
  ELSE IF f \notin s.alive \/ n = 0 THEN UndefinedPtr
  ELSE IF file_namecmp(name, base, s.name[f]) THEN f
  ELSE resolve1_walk(s, s.sibling[f], name, base, n - 1)

file_resolve1_clamped(s, file, name, base) ==
  IF file_namecmp(name, base, <<".", ".">>)
    THEN (IF s.parent[file] = NULL THEN file ELSE s.parent[file])
  ELSE IF file_namecmp(name, base, <<".">>) THEN file
  ELSE resolve1_walk(s, s.children[file], name, base, Fuel)

file_resolve1(s, file, name, base) ==
  IF file_namecmp(name, base, <<".", ".">>) THEN s.parent[file]
  ELSE IF file_namecmp(name, base, <<".">>) THEN file
  ELSE resolve1_walk(s, s.children[file], name, base, Fuel)

\* The inner while loop of file_resolve: the index of the next '/' or '\0'.
RECURSIVE skip_component(_, _)
skip_component(name, i) ==
  IF CharAt(name, i) # "/" /\ CharAt(name, i) # NUL
    THEN skip_component(name, i + 1)
    ELSE i

RECURSIVE resolve_loop(_, _, _, _)
resolve_loop(s, file, name, i) ==
  IF file = NULL \/ file = UndefinedPtr \/ CharAt(name, i) = NUL THEN file
  ELSE IF file \notin s.alive THEN UndefinedPtr
  ELSE LET f == file_resolve1(s, file, name, i)
           j == skip_component(name, i)
           k == IF CharAt(name, j) # NUL THEN j + 1 ELSE j
       IN  resolve_loop(s, f, name, k)

\* file_resolve(file, name + base)
RECURSIVE resolve_at(_, _, _, _)
resolve_at(s, file, name, base) ==
  IF CharAt(name, base) = "/"
    THEN resolve_at(s, Root, name, base + 1)
    ELSE resolve_loop(s, file, name, base)

file_resolve(s, file, name) == resolve_at(s, file, name, 0)

\* ------------------------------------------------------------ file paths

\* What file_path builds when it reads a freed block: nothing the model
\* follows.
UndefinedPath == << "?" >>

\* Mutant: no "/" is written between the path of the parent and the name.
RECURSIVE file_write_path_no_separator(_, _, _, _)
file_write_path_no_separator(s, file, sb, n) ==
  IF file \notin s.alive \/ n = 0 THEN UndefinedPath
  ELSE LET sb1 == IF s.parent[file] # NULL
                    THEN file_write_path_no_separator(s, s.parent[file], sb, n - 1)
                    ELSE sb
       IN  IF sb1 = UndefinedPath THEN UndefinedPath
           ELSE sb1 \o s.name[file]

\* Mutant: the path of the parent is not written.
RECURSIVE file_write_path_leaf(_, _, _, _)
file_write_path_leaf(s, file, sb, n) ==
  IF file \notin s.alive \/ n = 0 THEN UndefinedPath
  ELSE LET sb1 == IF s.parent[file] # NULL THEN sb \o << "/" >> ELSE sb
       IN  sb1 \o s.name[file]

\* file_write_path(file, sb): the contents of the string builder afterwards.
\* It returns true on every path, so the result is left out.
RECURSIVE file_write_path(_, _, _, _)
file_write_path(s, file, sb, n) ==
  IF file \notin s.alive \/ n = 0 THEN UndefinedPath
  ELSE LET sb1 == IF s.parent[file] # NULL
                    THEN LET up == file_write_path(s, s.parent[file], sb, n - 1)
                         IN  IF up = UndefinedPath THEN UndefinedPath
                             ELSE up \o << "/" >>
                    ELSE sb
       IN  IF sb1 = UndefinedPath THEN UndefinedPath
           ELSE sb1 \o s.name[file]

\* file_path(file): the string the builder hands out.
file_path(s, file) == file_write_path(s, file, <<>>, Fuel)

\* ---------------------------------------------------------------- loading

\* An entry of the host filesystem: its name, whether opendir opens it, and
\* the entries readdir then returns besides "." and "..".
HostFile(name)     == [name |-> name, dir |-> FALSE, sub |-> <<>>]
HostDir(name, sub) == [name |-> name, dir |-> TRUE, sub |-> sub]

\* What readdir returns for a directory.
Listing(host) ==
  << HostDir(<< "." >>, <<>>), HostDir(<< ".", "." >>, <<>>) >> \o host.sub

\* The free blocks memory_alloc may return, see Allocatable below.
FreshBlocks(s) ==
  LET referenced == {s.files} \cup
                    UNION { { s.next[n], s.prev[n], s.parent[n], s.sibling[n],
                              s.children[n] } : n \in s.alive }
  IN  (Nodes \ s.alive) \ referenced

FirstFresh(s) == CHOOSE n \in FreshBlocks(s) : \A m \in FreshBlocks(s) : n <= m

\* file_load(file, realpath), realpath being the host entry `host`.  r.s is
\* the file memory, r.mem the outcomes of the allocations still to come (of
\* the path string and of the node of an entry: when either fails the entry
\* is passed over), r.made the nodes file_new has returned.
RECURSIVE file_load(_, _, _), load_entries(_, _, _, _)
load_entries(r, file, entries, i) ==
  IF i > Len(entries) THEN r
  ELSE IF entries[i].name = << "." >> \/ entries[i].name = << ".", "." >>
    THEN load_entries(r, file, entries, i + 1)
  ELSE IF ~Head(r.mem)
    THEN load_entries([r EXCEPT !.mem = Tail(@)], file, entries, i + 1)
  ELSE LET f  == FirstFresh(r.s)
           r1 == [s    |-> file_new(r.s, f, file, entries[i].name),
                  mem  |-> Tail(r.mem),
                  made |-> Append(r.made, f)]
       IN  load_entries(file_load(r1, f, entries[i]), file, entries, i + 1)

file_load(r, file, host) ==
  IF host.dir THEN load_entries(r, file, Listing(host), 1) ELSE r

\* ------------------------------------------------- blueprints and objects

\* What one run of file_recompile meets: the host file does not open; no
\* memory for the blueprint; the source does not parse; the source compiles.
Outcomes == { "noopen", "nomem", "fail", "ok" }

\* blueprint_new: the next blueprint of the heap.
blueprint_new(s) == s.nBlue + 1

\* Mutant: the blueprint is installed whether or not the parse succeeded.
file_recompile_always_installs(s, file, outcome) ==
  IF outcome = "noopen" \/ outcome = "nomem"
    THEN [s |-> s, result |-> FALSE]
    ELSE LET blueprint == blueprint_new(s)
             s1        == [s EXCEPT !.nBlue = blueprint]
         IN  [s      |-> [s1 EXCEPT !.blueprint[file] = blueprint],
              result |-> (outcome = "ok")]

\* Mutant: a successful recompile drops the cached object of the file.
file_recompile_drops_object(s, file, outcome) ==
  IF outcome = "noopen" \/ outcome = "nomem"
    THEN [s |-> s, result |-> FALSE]
    ELSE LET blueprint == blueprint_new(s)
             s1        == [s EXCEPT !.nBlue = blueprint]
             result    == (outcome = "ok")
         IN  [s      |-> IF result
                           THEN [s1 EXCEPT !.blueprint[file] = blueprint,
                                           !.object[file]    = NULL]
                           ELSE s1,
              result |-> result]

\* file_recompile(file, log) under `outcome`: the state after and the result.
file_recompile(s, file, outcome) ==
  IF outcome = "noopen" \/ outcome = "nomem"
    THEN [s |-> s, result |-> FALSE]
    ELSE LET blueprint == blueprint_new(s)
             s1        == [s EXCEPT !.nBlue = blueprint]
             result    == (outcome = "ok")
         IN  [s      |-> IF result THEN [s1 EXCEPT !.blueprint[file] = blueprint] ELSE s1,
              result |-> result]

\* Mutant: the cache is not consulted.
file_get_blueprint_uncached(s, file, outcome) ==
  LET r == file_recompile(s, file, outcome)
  IN  [s |-> r.s, result |-> r.s.blueprint[file], compiles |-> 1]

\* file_get_blueprint(file): the state after, the result, the compiles run.
file_get_blueprint(s, file, outcome) ==
  IF s.blueprint[file] = NULL
    THEN LET r == file_recompile(s, file, outcome)
         IN  [s |-> r.s, result |-> r.s.blueprint[file], compiles |-> 1]
    ELSE [s |-> s, result |-> s.blueprint[file], compiles |-> 0]

\* object_new(raven, blue): the next object of the heap, or NULL.
object_new(s, blue, mem) == IF mem THEN s.nObj + 1 ELSE NULL

\* Mutant: a new object is made whether or not one is cached.
file_get_object_uncached(s, file, outcome, mem) ==
  LET r    == file_get_blueprint(s, file, outcome)
      blue == r.result
      obj  == object_new(r.s, blue, mem)
      s1   == IF blue # NULL /\ obj # NULL
                THEN [r.s EXCEPT !.object[file] = obj,
                                 !.nObj         = obj,
                                 !.objBlue      = [o \in 1 .. obj |->
                                                     IF o = obj THEN blue
                                                     ELSE r.s.objBlue[o]]]
                ELSE r.s
  IN  [s |-> s1, result |-> s1.object[file], compiles |-> r.compiles,
       made |-> IF blue # NULL /\ obj # NULL THEN 1 ELSE 0]

\* file_get_object(file); mem: object_new finds memory.
file_get_object(s, file, outcome, mem) ==
  IF s.object[file] = NULL
    THEN LET r    == file_get_blueprint(s, file, outcome)
             blue == r.result
             obj  == object_new(r.s, blue, mem)
             s1   == IF blue # NULL
                       THEN IF obj # NULL
                              THEN [r.s EXCEPT !.object[file] = obj,
                                               !.nObj         = obj,
                                               !.objBlue[obj] = blue]
                              ELSE r.s
                       ELSE r.s
         IN  [s |-> s1, result |-> s1.object[file], compiles |-> r.compiles,
              made |-> IF s1.object[file] # NULL THEN 1 ELSE 0]
    ELSE [s |-> s, result |-> s.object[file], compiles |-> 0, made |-> 0]

\* ------------------------------------------------------------ code writer

InitialAlloc == 128      \* writer->alloc after codewriter_create
WcSize       == 2        \* sizeof(t_wc), bytes of a wide operand
WcRange      == 65536    \* the values of a t_wc: 0 .. WcRange - 1
Unwritten    == -1       \* a byte of the buffer nothing has been stored in
MaxAllocs    == 3        \* writes, hence resize attempts, of the longest emitter

\* The opcodes, in the order of the opcode table.
Opcodes ==
  << "LOAD_SELF", "LOAD_CONST", "LOAD_ARRAY", "LOAD_MAPPING", "LOAD_FUNCREF",
     "LOAD_LOCAL", "LOAD_MEMBER", "STORE_LOCAL", "STORE_MEMBER", "PUSH_SELF",
     "PUSH", "POP", "OP", "SEND", "SUPER_SEND", "JUMP", "JUMP_IF",
     "JUMP_IF_NOT", "RETURN" >>

\* RAVEN_BYTECODE_<name>: the opcodes are numbered from 0.
RAVEN_BYTECODE(name) ==
  (CHOOSE i \in 1 .. Len(Opcodes) : Opcodes[i] = name) - 1

\* The conversion (t_wc) v.
AsWc(v) == v % WcRange

\* bytes[at] = v.  The model keeps the buffer up to the last byte that has
\* been stored in; the bytes between are Unwritten.
StoreByte(bytes, at, v) ==
  IF at < Len(bytes) THEN [bytes EXCEPT ![at + 1] = v]
  ELSE bytes \o [i \in 1 .. (at - Len(bytes)) |-> Unwritten] \o << v >>

\* *((t_wc*) &bytes[at]) = wc: the low byte first.
StoreWc(bytes, at, wc) ==
  StoreByte(StoreByte(bytes, at, AsWc(wc) % 256), at + 1, AsWc(wc) \div 256)

\* *((t_wc*) &bytes[at]).
LoadWc(bytes, at) == bytes[at + 1] + 256 * bytes[at + 2]

\* The writer codewriter_create leaves.  labels[0 .. li-1] and
\* constants[0 .. ci-1] are the entries of the two arrays that have been
\* stored in; `oracle` holds, during one operation, the outcomes of the
\* memory_alloc calls the operation will make.
codewriter_create ==
  [ max_locals |-> 0,
    varargs    |-> FALSE,
    alloc      |-> InitialAlloc,
    fill       |-> 0,
    bytecodes  |-> <<>>,
    ci         |-> 0,
    constants  |-> <<>>,
    li         |-> 0,
    labels     |-> <<>>,
    oracle     |-> <<>>,
    ub         |-> FALSE ]

codewriter_report_locals(w, locals) ==
  IF locals > w.max_locals THEN [w EXCEPT !.max_locals = locals] ELSE w

codewriter_enable_varargs(w) == [w EXCEPT !.varargs = TRUE]

\* Returns the writer and whether the buffer was doubled.
codewriter_resize(w) ==
  LET new_size == w.alloc * 2
      w1       == [w EXCEPT !.oracle = Tail(@)]
  IN  IF ~Head(w.oracle)
      THEN [w |-> w1, ok |-> FALSE]
      ELSE [w  |-> [w1 EXCEPT !.alloc     = new_size,
                              !.bytecodes = SubSeq(@, 1, w.fill)],
            ok |-> TRUE]

codewriter_write(w, bc) ==
  LET r == IF w.fill >= w.alloc THEN codewriter_resize(w) ELSE [w |-> w, ok |-> TRUE]
  IN  IF ~r.ok THEN r.w
      ELSE [r.w EXCEPT !.bytecodes = StoreByte(@, r.w.fill, bc), !.fill = @ + 1]

codewriter_write_wc_late(w, wc) ==
  LET r == IF w.fill + WcSize - 1 > w.alloc THEN codewriter_resize(w)
           ELSE [w |-> w, ok |-> TRUE]
  IN  IF ~r.ok THEN r.w
      ELSE [r.w EXCEPT !.bytecodes = StoreWc(@, r.w.fill, wc), !.fill = @ + WcSize]

codewriter_write_wc(w, wc) ==
  LET r == IF w.fill + WcSize - 1 >= w.alloc THEN codewriter_resize(w)
           ELSE [w |-> w, ok |-> TRUE]
  IN  IF ~r.ok THEN r.w
      ELSE [r.w EXCEPT !.bytecodes = StoreWc(@, r.w.fill, wc), !.fill = @ + WcSize]

\* Returns the writer and the index of the constant.
codewriter_write_constant(w, c) ==
  LET w1 == codewriter_write_wc(w, AsWc(w.ci))
      w2 == [w1 EXCEPT !.constants = Append(@, c), !.ci = @ + 1]
  IN  [w |-> w2, ret |-> AsWc(w2.ci - 1)]

codewriter_load_self(w) == codewriter_write(w, RAVEN_BYTECODE("LOAD_SELF"))

codewriter_load_const(w, value) ==
  codewriter_write_constant(codewriter_write(w, RAVEN_BYTECODE("LOAD_CONST")), value).w

codewriter_load_array(w, size) ==
  codewriter_write_wc(codewriter_write(w, RAVEN_BYTECODE("LOAD_ARRAY")), size)

codewriter_load_mapping(w, size) ==
  codewriter_write_wc(codewriter_write(w, RAVEN_BYTECODE("LOAD_MAPPING")), size)

codewriter_load_funcref(w, name) ==
  codewriter_write_constant(codewriter_write(w, RAVEN_BYTECODE("LOAD_FUNCREF")), name).w

codewriter_load_local(w, index) ==
  codewriter_write_wc(codewriter_write(w, RAVEN_BYTECODE("LOAD_LOCAL")), index)

codewriter_load_member(w, index) ==
  codewriter_write_wc(codewriter_write(w, RAVEN_BYTECODE("LOAD_MEMBER")), index)

codewriter_store_local(w, index) ==
  codewriter_write_wc(codewriter_write(w, RAVEN_BYTECODE("STORE_LOCAL")), index)

codewriter_store_member(w, index) ==
  codewriter_write_wc(codewriter_write(w, RAVEN_BYTECODE("STORE_MEMBER")), index)

codewriter_push_self(w) == codewriter_write(w, RAVEN_BYTECODE("PUSH_SELF"))

codewriter_push(w) == codewriter_write(w, RAVEN_BYTECODE("PUSH"))

codewriter_pop(w) == codewriter_write(w, RAVEN_BYTECODE("POP"))

codewriter_op(w, o) ==
  codewriter_write_wc(codewriter_write(w, RAVEN_BYTECODE("OP")), o)

codewriter_send(w, message, args) ==
  codewriter_write_wc(
    codewriter_write_constant(codewriter_write(w, RAVEN_BYTECODE("SEND")), message).w,
    args)

codewriter_super_send(w, message, args) ==
  codewriter_write_wc(
    codewriter_write_constant(codewriter_write(w, RAVEN_BYTECODE("SUPER_SEND")), message).w,
    args)

codewriter_return(w) == codewriter_write(w, RAVEN_BYTECODE("RETURN"))

\* labels[label], label counted from 0 as in the source.
LabelAt(w, label) == w.labels[label + 1]

\* The first index from `label` up whose slot has loc == -1, or li.
RECURSIVE find_free_slot(_, _)
find_free_slot(w, label) ==
  IF label >= w.li THEN w.li
  ELSE IF LabelAt(w, label).loc = -1 THEN label
  ELSE find_free_slot(w, label + 1)

\* The loop starts at label = -1 and so reads labels[-1].loc, which lies
\* before the array: `before` says whether the value found there is -1.
\* The slot `return writer->li++` hands out holds nothing until the caller
\* stores in it, which both callers do at once.
codewriter_find_label_slot(w, before) ==
  IF before THEN [w |-> w, label |-> -1]
  ELSE LET label == find_free_slot(w, 0)
       IN  IF label < w.li THEN [w |-> w, label |-> label]
           ELSE [w     |-> [w EXCEPT !.li     = @ + 1,
                                     !.labels = Append(@, [loc |-> -1, target |-> -1])],
                 label |-> w.li]

\* Returns the writer and the label.
codewriter_open_label(w, before) ==
  LET r == codewriter_find_label_slot(w, before)
  IN  IF r.label < 0 THEN r
      ELSE [w     |-> [r.w EXCEPT !.labels[r.label + 1] =
                                     [loc |-> r.label, target |-> -1]],
            label |-> r.label]

\* The loop body of codewriter_place_label for the slots i .. li-1.  A patch
\* that does not fit in the buffer writes outside of it.
RECURSIVE place_loop(_, _, _)
place_loop(w, label, i) ==
  IF i >= w.li THEN w
  ELSE IF LabelAt(w, i).loc = label /\ i # label
       THEN LET target == LabelAt(w, i).target
                w1     == [w EXCEPT !.labels[i + 1].loc = -1]
            IN  IF target < 0 \/ target + WcSize > w.alloc
                THEN [w1 EXCEPT !.ub = TRUE]
                ELSE place_loop([w1 EXCEPT !.bytecodes = StoreWc(@, target, w.fill)],
                                label, i + 1)
       ELSE place_loop(w, label, i + 1)

codewriter_place_label(w, label) ==
  IF label >= 0
  THEN place_loop([w EXCEPT !.labels[label + 1].target = w.fill], label, 0)
  ELSE w

codewriter_close_label(w, label) ==
  IF label >= 0 /\ label < w.li
  THEN [w EXCEPT !.labels[label + 1].loc = -1]
  ELSE w

codewriter_write_cwl(w, label, before) ==
  IF label >= 0 /\ label < w.li /\ LabelAt(w, label).target >= 0
  THEN codewriter_write_wc(w, LabelAt(w, label).target)
  ELSE LET r == codewriter_find_label_slot(w, before)
           i == r.label
       IN  IF i < 0 THEN codewriter_write_wc(r.w, -1)
           ELSE codewriter_write_wc(
                  [r.w EXCEPT !.labels[i + 1] = [loc |-> label, target |-> r.w.fill]],
                  0)

codewriter_jump(w, label, before) ==
  codewriter_write_cwl(codewriter_write(w, RAVEN_BYTECODE("JUMP")), label, before)

codewriter_jump_if(w, label, before) ==
  codewriter_write_cwl(codewriter_write(w, RAVEN_BYTECODE("JUMP_IF")), label, before)

codewriter_jump_if_not(w, label, before) ==
  codewriter_write_cwl(codewriter_write(w, RAVEN_BYTECODE("JUMP_IF_NOT")), label, before)

\* function_new copies the first fill bytes and the first ci constants.
codewriter_finish(w) ==
  [ locals    |-> w.max_locals + 1,
    varargs   |-> w.varargs,
    bytecodes |-> SubSeq(w.bytecodes, 1, w.fill),
    constants |-> SubSeq(w.constants, 1, w.ci) ]

\* ---------------------------------------------------------- specification

InitFs ==
  [ files     |-> Root,
    alive     |-> {Root},
    next      |-> [n \in Nodes |-> NULL],
    prev      |-> [n \in Nodes |-> FilesLink],
    parent    |-> [n \in Nodes |-> NULL],
    sibling   |-> [n \in Nodes |-> NULL],
    children  |-> [n \in Nodes |-> NULL],
    name      |-> [n \in Nodes |-> <<>>],
    blueprint |-> [n \in Nodes |-> NULL],
    object    |-> [n \in Nodes |-> NULL],
    nBlue     |-> 0,
    nObj      |-> 0,
    objBlue   |-> [o \in 1 .. MaxObjects |-> NULL],
    ub        |-> FALSE,
    hung      |-> FALSE ]

InitFiles ==
  /\ fs   = InitFs
  /\ made = [n \in Nodes |-> 0]
  /\ op   = [name |-> "filesystem_create", file |-> Root, ret |-> Root, compiles |-> 0]
  /\ arg  = <<>>

\* No function has been made.
NoFunction == [locals |-> 0, varargs |-> FALSE, bytecodes |-> <<>>, constants |-> <<>>]

\* ops: the calls made so far.  nomem: an allocation has failed.  ids: the
\* labels opened.  open: the open labels, handle and label.  placed: the
\* placements, label and fill.  sites: the jumps, offset of the opcode and
\* label.
InitHist ==
  [ ops |-> 0, nomem |-> FALSE, ids |-> 0,
    open |-> {}, placed |-> <<>>, sites |-> {} ]

InitWriter ==
  /\ cw   = codewriter_create
  /\ hist = InitHist
  /\ cwop = [name |-> "codewriter_create", label |-> -1, value |-> "", ret |-> 0,
             fn |-> NoFunction]

Init == InitFiles /\ InitWriter

\* The program runs on until a call does not return or its behaviour is
\* undefined.
Running == ~fs.ub /\ ~fs.hung

\* The blocks some pointer of an allocated block, or fs->files, points at.
Referenced(s) ==
  {s.files} \cup
  UNION { { s.next[n], s.prev[n], s.parent[n], s.sibling[n], s.children[n] } :
          n \in s.alive }

\* The blocks memory_alloc may return: a free block that no pointer refers to.
\* Which of them is returned cannot be observed, so the model takes the first.
Allocatable(s) ==
  LET fresh == (Nodes \ s.alive) \ Referenced(s)
  IN  { n \in fresh : \A m \in fresh : n <= m }

\* file_new(fs, parent, name) with a name of `names`; memory_alloc returns a
\* free block, or NULL.
FileNewNamed(names) ==
  \E parent \in fs.alive, name \in names :
    /\ Running
    /\ \/ \E file \in Allocatable(fs) :
            /\ fs'   = file_new(fs, file, parent, name)
            /\ made' = [made EXCEPT ![file] = 0]
            /\ op'   = [name |-> "file_new", file |-> parent, ret |-> file, compiles |-> 0]
       \/ /\ op' = [name |-> "file_new", file |-> parent, ret |-> NULL, compiles |-> 0]
          /\ UNCHANGED << fs, made >>
    /\ arg' = <<>>
    /\ UNCHANGED cwvars

FileNew == FileNewNamed(Names)

FileDelete ==
  \E file \in fs.alive \ {Root} :
    /\ Running
    /\ fs' = file_delete(fs, file)
    /\ op' = [name |-> "file_delete", file |-> file, ret |-> NULL, compiles |-> 0]
    /\ arg' = <<>>
    /\ UNCHANGED cwvars
    /\ UNCHANGED made

\* A run of the compiler that allocates a blueprint needs one to allocate.
CanRun(s, file, outcome) ==
  outcome \in {"fail", "ok"} => s.nBlue < MaxBlueprints

FileRecompile ==
  \E file \in fs.alive, outcome \in Outcomes :
    /\ Running
    /\ CanRun(fs, file, outcome)
    /\ LET r == file_recompile(fs, file, outcome)
       IN  /\ fs' = r.s
           /\ op' = [name |-> "file_recompile", file |-> file,
                     ret |-> IF r.result THEN 1 ELSE 0, compiles |-> 1]
    /\ arg' = <<>>
    /\ UNCHANGED cwvars
    /\ UNCHANGED made

FileGetBlueprint ==
  \E file \in fs.alive, outcome \in Outcomes :
    /\ Running
    /\ fs.blueprint[file] = NULL => CanRun(fs, file, outcome)
    /\ LET r == file_get_blueprint(fs, file, outcome)
       IN  /\ fs' = r.s
           /\ op' = [name |-> "file_get_blueprint", file |-> file,
                     ret |-> r.result, compiles |-> r.compiles]
    /\ arg' = <<>>
    /\ UNCHANGED cwvars
    /\ UNCHANGED made

FileGetObject ==
  \E file \in fs.alive, outcome \in Outcomes, mem \in BOOLEAN :
    /\ Running
    /\ (fs.object[file] = NULL /\ fs.blueprint[file] = NULL) => CanRun(fs, file, outcome)
    /\ (fs.object[file] = NULL /\ mem) => fs.nObj < MaxObjects
    /\ LET r == file_get_object(fs, file, outcome, mem)
       IN  /\ fs'   = r.s
           /\ made' = [made EXCEPT ![file] = @ + r.made]
           /\ op'   = [name |-> "file_get_object", file |-> file,
                       ret |-> r.result, compiles |-> r.compiles]
    /\ arg' = <<>>
    /\ UNCHANGED cwvars

FileResolve ==
  /\ Running
  /\ op.name # "file_resolve"
  /\ \E file \in fs.alive, name \in Paths :
    /\ op'  = [name |-> "file_resolve", file |-> file,
               ret |-> file_resolve(fs, file, name), compiles |-> 0]
    /\ arg' = name
    /\ UNCHANGED cwvars
    /\ UNCHANGED << fs, made >>

\* The file tree under file_new and file_delete.
Next == FileNew \/ FileDelete

Spec == Init /\ [][Next]_vars

\* The caches of the nodes, with the nodes coming and going.
FileNewPlain ==
  /\ Cardinality(fs.alive) <= MaxCached
  /\ FileNewNamed({ <<"a">> })

NextCache ==
  FileNewPlain \/ FileDelete \/ FileRecompile \/ FileGetBlueprint \/ FileGetObject

SpecCache == Init /\ [][NextCache]_vars

\* Path resolution, a pure function of the tree: file_new builds a tree, then
\* file_resolve is applied to it.
FileNewBuild ==
  /\ op.name # "file_resolve"
  /\ FileNew

NextResolve == FileNewBuild \/ FileResolve

SpecResolve == Init /\ [][NextResolve]_vars

\* The paths of up to MaxClimb components "..", "." or "a", joined by '/',
\* relative or behind a leading '/'.
ClimbComponents == { <<".", ".">>, <<".">>, <<"a">> }

RECURSIVE Joined(_)
Joined(comps) ==
  IF Len(comps) = 1 THEN Head(comps)
  ELSE Head(comps) \o <<"/">> \o Joined(Tail(comps))

ClimbPaths ==
  LET rel == { Joined(c) : c \in SeqsUpTo(ClimbComponents, MaxClimb) \ { <<>> } }
  IN  rel \cup { <<"/">> \o q : q \in rel }

\* file_resolve(file, name) with a path of ClimbPaths on the tree built.
FileResolveClimb ==
  /\ Running
  /\ op.name # "file_resolve"
  /\ \E file \in fs.alive, name \in ClimbPaths :
       /\ op'  = [name |-> "file_resolve", file |-> file,
                  ret |-> file_resolve(fs, file, name), compiles |-> 0]
       /\ arg' = name
       /\ UNCHANGED << fs, made >>
       /\ UNCHANGED cwvars

NextClimb == FileNewBuild \/ FileResolveClimb

SpecClimb == Init /\ [][NextClimb]_vars

\* The paths file_resolve is given from the root: those of Paths, and those
\* of Paths behind a leading '/'.
RootPaths == Paths \cup { << "/" >> \o q : q \in Paths }

\* file_resolve(root, name) on the tree built.
FileResolveRoot ==
  /\ Running
  /\ op.name \notin { "file_resolve", "file_path" }
  /\ \E name \in RootPaths :
       /\ op'  = [name |-> "file_resolve", file |-> Root,
                  ret |-> file_resolve(fs, Root, name), compiles |-> 0]
       /\ arg' = name
       /\ UNCHANGED << fs, made >>
       /\ UNCHANGED cwvars

\* file_path(file_resolve(root, name)): op.file is the node, op.ret its path,
\* arg stays the name that was resolved.
FilePath ==
  /\ Running
  /\ op.name = "file_resolve"
  /\ op.file = Root
  /\ op.ret \in fs.alive
  /\ op' = [name |-> "file_path", file |-> op.ret,
            ret |-> file_path(fs, op.ret), compiles |-> 0]
  /\ UNCHANGED << fs, made, arg >>
  /\ UNCHANGED cwvars

FileNewBeforePath ==
  /\ op.name # "file_path"
  /\ FileNewBuild

NextPath == FileNewBeforePath \/ FileResolveRoot \/ FilePath

\* The path of a node found from the root: file_new builds a tree,
\* file_resolve finds a node in it, file_path is applied to the node.
SpecPath == Init /\ [][NextPath]_vars

\* The host trees file_load is pointed at: a path that is no directory, an
\* empty directory, one file, a directory with a file in it, a file beside
\* a directory with a file in it.
HostTrees ==
  { HostFile(<<>>),
    HostDir(<<>>, <<>>),
    HostDir(<<>>, << HostFile(<< "a" >>) >>),
    HostDir(<<>>, << HostDir(<< "a" >>, << HostFile(<< "a" >>) >>) >>),
    HostDir(<<>>, << HostFile(<< "a" >>),
                     HostDir(<< "a", "b" >>, << HostFile(<< "a" >>) >>) >>) }

\* The entries of a host tree below its top.
RECURSIVE HostSize(_), HostSizeFrom(_, _)
HostSizeFrom(sub, i) ==
  IF i > Len(sub) THEN 0 ELSE HostSize(sub[i]) + 1 + HostSizeFrom(sub, i + 1)

HostSize(host) == HostSizeFrom(host.sub, 1)

\* file_load(file, realpath); mem: which of its allocations succeed.
FileLoad ==
  \E file \in fs.alive, host \in HostTrees :
    /\ Running
    /\ HostSize(host) <= Cardinality(FreshBlocks(fs))
    /\ \E mem \in [1 .. HostSize(host) -> BOOLEAN] :
         LET r == file_load([s |-> fs, mem |-> mem, made |-> <<>>], file, host)
         IN  /\ fs'   = r.s
             /\ made' = [n \in Nodes |-> IF \E i \in 1 .. Len(r.made) : r.made[i] = n
                                          THEN 0 ELSE made[n]]
             /\ op'   = [name |-> "file_load", file |-> file, ret |-> r.made,
                         compiles |-> 0]
    /\ arg' = host
    /\ UNCHANGED cwvars

NextLoad == FileNew \/ FileDelete \/ FileLoad

\* The file tree under file_new, file_load and file_delete.
SpecLoad == Init /\ [][NextLoad]_vars

\* ------------------------------------------------- code writer, one compile

Operands == { 0, 1 }        \* the t_wc arguments of the emitters
Values   == { "x", "y" }    \* the constants, names and messages interned
Locals   == { 1, 2 }        \* the arguments of codewriter_report_locals

\* The code writer is used until codewriter_finish has made the function,
\* or a store has gone outside the buffer.
Compiling == cwop.name # "codewriter_finish" /\ ~cw.ub

\* The outcomes of an operation that calls memory_alloc for nothing.
NoAlloc == [i \in 1 .. MaxAllocs |-> TRUE]

\* The outcomes of the memory_alloc calls of one operation: any, when the
\* operation may reach the end of the buffer; otherwise none is made.
Oracles(w) ==
  IF w.fill + 2 * WcSize + 1 > w.alloc
  THEN [1 .. MaxAllocs -> BOOLEAN]
  ELSE { NoAlloc }

Begin(w, o) == [w EXCEPT !.oracle = o]
End(w)      == [w EXCEPT !.oracle = <<>>]

\* Whether one of the allocations made between Begin(w, o) and w1 failed.
Failed(o, w1) ==
  \E i \in 1 .. (MaxAllocs - Len(w1.oracle)) : ~o[i]

CanEmit   == Compiling /\ hist.ops < MaxEmit
Labelling == Compiling /\ hist.ops < MaxOps

Emitted(name, value, o, w1) ==
  /\ cw'   = End(w1)
  /\ cwop' = [name |-> name, label |-> -1, value |-> value, ret |-> 0,
              fn |-> NoFunction]
  /\ hist' = [hist EXCEPT !.ops = @ + 1, !.nomem = @ \/ Failed(o, w1)]
  /\ UNCHANGED fsvars

CodewriterReportLocals ==
  /\ CanEmit
  /\ \E locals \in Locals :
       Emitted("codewriter_report_locals", "", NoAlloc,
               Begin(codewriter_report_locals(cw, locals), NoAlloc))

CodewriterEnableVarargs ==
  /\ CanEmit
  /\ Emitted("codewriter_enable_varargs", "", NoAlloc,
             Begin(codewriter_enable_varargs(cw), NoAlloc))

CodewriterLoadSelf ==
  /\ CanEmit
  /\ \E o \in Oracles(cw) :
       Emitted("codewriter_load_self", "", o, codewriter_load_self(Begin(cw, o)))

CodewriterLoadConst ==
  /\ CanEmit
  /\ \E value \in Values, o \in Oracles(cw) :
       Emitted("codewriter_load_const", value, o,
               codewriter_load_const(Begin(cw, o), value))

CodewriterLoadArray ==
  /\ CanEmit
  /\ \E size \in Operands, o \in Oracles(cw) :
       Emitted("codewriter_load_array", "", o, codewriter_load_array(Begin(cw, o), size))

CodewriterLoadMapping ==
  /\ CanEmit
  /\ \E size \in Operands, o \in Oracles(cw) :
       Emitted("codewriter_load_mapping", "", o,
               codewriter_load_mapping(Begin(cw, o), size))

CodewriterLoadFuncref ==
  /\ CanEmit
  /\ \E name \in Values, o \in Oracles(cw) :
       Emitted("codewriter_load_funcref", name, o,
               codewriter_load_funcref(Begin(cw, o), name))

CodewriterLoadLocal ==
  /\ CanEmit
  /\ \E index \in Operands, o \in Oracles(cw) :
       Emitted("codewriter_load_local", "", o, codewriter_load_local(Begin(cw, o), index))

CodewriterLoadMember ==
  /\ CanEmit
  /\ \E index \in Operands, o \in Oracles(cw) :
       Emitted("codewriter_load_member", "", o,
               codewriter_load_member(Begin(cw, o), index))

CodewriterStoreLocal ==
  /\ CanEmit
  /\ \E index \in Operands, o \in Oracles(cw) :
       Emitted("codewriter_store_local", "", o,
               codewriter_store_local(Begin(cw, o), index))

CodewriterStoreMember ==
  /\ CanEmit
  /\ \E index \in Operands, o \in Oracles(cw) :
       Emitted("codewriter_store_member", "", o,
               codewriter_store_member(Begin(cw, o), index))

CodewriterPushSelf ==
  /\ CanEmit
  /\ \E o \in Oracles(cw) :
       Emitted("codewriter_push_self", "", o, codewriter_push_self(Begin(cw, o)))

CodewriterPush ==
  /\ CanEmit
  /\ \E o \in Oracles(cw) :
       Emitted("codewriter_push", "", o, codewriter_push(Begin(cw, o)))

CodewriterPop ==
  /\ CanEmit
  /\ \E o \in Oracles(cw) :
       Emitted("codewriter_pop", "", o, codewriter_pop(Begin(cw, o)))

CodewriterOp ==
  /\ CanEmit
  /\ \E o1 \in Operands, o \in Oracles(cw) :
       Emitted("codewriter_op", "", o, codewriter_op(Begin(cw, o), o1))

CodewriterSend ==
  /\ CanEmit
  /\ \E message \in Values, args \in Operands, o \in Oracles(cw) :
       Emitted("codewriter_send", message, o,
               codewriter_send(Begin(cw, o), message, args))

CodewriterSuperSend ==
  /\ CanEmit
  /\ \E message \in Values, args \in Operands, o \in Oracles(cw) :
       Emitted("codewriter_super_send", message, o,
               codewriter_super_send(Begin(cw, o), message, args))

CodewriterReturn ==
  /\ CanEmit
  /\ \E o \in Oracles(cw) :
       Emitted("codewriter_return", "", o, codewriter_return(Begin(cw, o)))

\* The handles of the labels that are open, and the label a handle stands for.
OpenLabels == { p[1] : p \in hist.open }
IdOf(label) == CHOOSE id \in 1 .. hist.ids : << label, id >> \in hist.open

CodewriterOpenLabel ==
  /\ Labelling
  /\ \E before \in BOOLEAN :
       LET r == codewriter_open_label(cw, before)
       IN  /\ cw'   = r.w
           /\ cwop' = [name |-> "codewriter_open_label", label |-> -1, value |-> "",
                       ret |-> r.label, fn |-> NoFunction]
           /\ hist' = IF r.label >= 0
                      THEN [hist EXCEPT !.ops  = @ + 1,
                                        !.ids  = @ + 1,
                                        !.open = @ \cup { << r.label, hist.ids + 1 >> }]
                      ELSE [hist EXCEPT !.ops = @ + 1]
  /\ UNCHANGED fsvars

CodewriterPlaceLabel ==
  /\ Labelling
  /\ \E label \in OpenLabels :
       /\ cw'   = codewriter_place_label(cw, label)
       /\ cwop' = [name |-> "codewriter_place_label", label |-> label, value |-> "",
                   ret |-> 0, fn |-> NoFunction]
       /\ hist' = [hist EXCEPT !.ops    = @ + 1,
                               !.placed = Append(@, << IdOf(label), cw.fill >>)]
  /\ UNCHANGED fsvars

CodewriterCloseLabel ==
  /\ Labelling
  /\ \E label \in OpenLabels :
       /\ cw'   = codewriter_close_label(cw, label)
       /\ cwop' = [name |-> "codewriter_close_label", label |-> label, value |-> "",
                   ret |-> 0, fn |-> NoFunction]
       /\ hist' = [hist EXCEPT !.ops  = @ + 1,
                               !.open = @ \ { << label, IdOf(label) >> }]
  /\ UNCHANGED fsvars

\* A jump against the label: its opcode is due at the fill before the call.
Jumped(name, label, o, w1) ==
  /\ cw'   = End(w1)
  /\ cwop' = [name |-> name, label |-> label, value |-> "", ret |-> 0,
              fn |-> NoFunction]
  /\ hist' = [hist EXCEPT !.ops   = @ + 1,
                          !.nomem = @ \/ Failed(o, w1),
                          !.sites = @ \cup { << cw.fill, IdOf(label) >> }]
  /\ UNCHANGED fsvars

CodewriterJump ==
  /\ Labelling
  /\ \E label \in OpenLabels, before \in BOOLEAN, o \in Oracles(cw) :
       Jumped("codewriter_jump", label, o, codewriter_jump(Begin(cw, o), label, before))

CodewriterJumpIf ==
  /\ Labelling
  /\ \E label \in OpenLabels, before \in BOOLEAN, o \in Oracles(cw) :
       Jumped("codewriter_jump_if", label, o,
              codewriter_jump_if(Begin(cw, o), label, before))

CodewriterJumpIfNot ==
  /\ Labelling
  /\ \E label \in OpenLabels, before \in BOOLEAN, o \in Oracles(cw) :
       Jumped("codewriter_jump_if_not", label, o,
              codewriter_jump_if_not(Begin(cw, o), label, before))

CodewriterFinish ==
  /\ Compiling
  /\ cwop' = [name |-> "codewriter_finish", label |-> -1, value |-> "", ret |-> 0,
              fn |-> codewriter_finish(cw)]
  /\ UNCHANGED << cw, hist >>
  /\ UNCHANGED fsvars

\* The emitters other than the jumps.
NextEmit ==
  \/ CodewriterReportLocals \/ CodewriterEnableVarargs
  \/ CodewriterLoadSelf \/ CodewriterLoadConst \/ CodewriterLoadArray
  \/ CodewriterLoadMapping \/ CodewriterLoadFuncref \/ CodewriterLoadLocal
  \/ CodewriterLoadMember \/ CodewriterStoreLocal \/ CodewriterStoreMember
  \/ CodewriterPushSelf \/ CodewriterPush \/ CodewriterPop \/ CodewriterOp
  \/ CodewriterSend \/ CodewriterSuperSend \/ CodewriterReturn
  \/ CodewriterFinish

\* The writer after n \div 3 calls of codewriter_load_local(writer, 1) and
\* n % 3 calls of codewriter_push, n < InitialAlloc.
Prefilled(n) ==
  LET wide == (1 + WcSize) * (n \div (1 + WcSize))
  IN  [codewriter_create EXCEPT
         !.fill      = n,
         !.bytecodes = [i \in 1 .. n |->
                          IF i > wide THEN RAVEN_BYTECODE("PUSH")
                          ELSE IF i % (1 + WcSize) = 1 THEN RAVEN_BYTECODE("LOAD_LOCAL")
                          ELSE IF i % (1 + WcSize) = 2 THEN 1
                          ELSE 0]]

InitFull ==
  /\ InitFiles
  /\ cw   = Prefilled(PreFill)
  /\ hist = InitHist
  /\ cwop = [name |-> "codewriter_load_local", label |-> -1, value |-> "", ret |-> 0,
             fn |-> NoFunction]

\* One compile without labels, from a fresh code writer or from one that has
\* emitted PreFill bytes.
SpecEmit == (Init \/ InitFull) /\ [][NextEmit]_vars

\* The label table: labels, jumps, and codewriter_push for the code between.
PushBetween ==
  /\ Labelling
  /\ \E o \in Oracles(cw) :
       Emitted("codewriter_push", "", o, codewriter_push(Begin(cw, o)))

NextCW ==
  \/ CodewriterOpenLabel \/ CodewriterPlaceLabel \/ CodewriterCloseLabel
  \/ CodewriterJump \/ CodewriterJumpIf \/ CodewriterJumpIfNot
  \/ PushBetween \/ CodewriterFinish

\* One compile with labels, from a fresh code writer.
SpecCW == Init /\ [][NextCW]_vars

\* One compile with labels by a code writer that has emitted PreFill bytes:
\* the jumps cross the end of the first buffer.
SpecGrow == InitFull /\ [][NextCW]_vars

\* ------------------------------------------------------------------ claims

\* The registry: the blocks reached from fs->files over next (the list the
\* collector walks to call file_mark).
RECURSIVE RegistryFrom(_, _)
RegistryFrom(f, n) ==
  IF f = NULL \/ n = 0 THEN {}
  ELSE {f} \cup (IF f \in fs.alive THEN RegistryFrom(fs.next[f], n - 1) ELSE {})

Registry == RegistryFrom(fs.files, Fuel)

\* C1: after file_delete(f), f and its descendants are gone from the tree: no
\* remaining node's children or sibling pointer leads to a deleted node,
\* file_resolve from a remaining node never returns a deleted node, and no
\* deleted node is on the registry whose caches are marked as roots.
C1_DeletedGoneFromTree ==
  (op.name = "file_delete") =>
    /\ \A n \in fs.alive :
         /\ fs.children[n] \in fs.alive \cup {NULL}
         /\ fs.sibling[n]  \in fs.alive \cup {NULL}
    /\ \A n \in fs.alive : \A p \in Paths :
         file_resolve(fs, n, p) \in fs.alive \cup {NULL}
    /\ Registry \subseteq fs.alive

\* The blueprints some cache or some object refers to.
BlueprintsInUse(s) ==
  ({ s.blueprint[n] : n \in Nodes } \cup { s.objBlue[o] : o \in 1 .. MaxObjects })
    \ {NULL}

\* C6: file_get_blueprint(f) returns the cached blueprint without running the
\* compiler when the cache is non-nil; when it is nil it runs the compiler
\* once and returns the newly installed blueprint, or nil with the cache
\* still nil.
C6_GetBlueprintStep ==
  \A f \in Nodes :
    (op'.name = "file_get_blueprint" /\ op'.file = f) =>
      IF fs.blueprint[f] # NULL
        THEN /\ op'.ret = fs.blueprint[f]
             /\ op'.compiles = 0
             /\ fs' = fs
        ELSE /\ op'.compiles = 1
             /\ \/ /\ op'.ret # NULL
                   /\ op'.ret \notin BlueprintsInUse(fs)
                   /\ fs'.blueprint[f] = op'.ret
                \/ /\ op'.ret = NULL
                   /\ fs'.blueprint[f] = NULL

C6_GetBlueprint == [][C6_GetBlueprintStep]_vars

\* file_get_blueprint answered from the cache.
C6_Witness ==
  /\ op.name = "file_get_blueprint"
  /\ op.compiles = 0
  /\ op.ret # NULL

\* C7: a node has a singleton object: at most one object is ever created for
\* it, a cached object is never replaced, file_get_object returns it, an
\* object is created only from the node's blueprint, and file_get_object
\* returns nil with the cache still nil when no blueprint is at hand.
C7_SingletonStep ==
  \A f \in fs.alive \cap fs'.alive :
    /\ made'[f] <= 1
    /\ fs.object[f] # NULL => fs'.object[f] = fs.object[f]
    /\ (op'.name = "file_get_object" /\ op'.file = f) =>
         /\ op'.ret = fs'.object[f]
         /\ made'[f] > made[f] =>
              /\ fs.object[f] = NULL
              /\ fs'.blueprint[f] # NULL
              /\ fs'.objBlue[op'.ret] = fs'.blueprint[f]
              /\ \A g \in Nodes \ {f} : fs.object[g] # op'.ret
         /\ made'[f] = made[f] => fs'.object[f] = fs.object[f]
         /\ fs'.blueprint[f] = NULL => (op'.ret = NULL /\ fs'.object[f] = NULL)

C7_Singleton == [][C7_SingletonStep]_vars

\* file_get_object returns the one object of the node after the node's
\* blueprint has been replaced: a call after the first successful one.
C7_Witness ==
  /\ op.name = "file_get_object"
  /\ op.ret # NULL
  /\ made[op.file] = 1
  /\ fs.objBlue[op.ret] # fs.blueprint[op.file]

\* C8: file_recompile(f) returns true exactly when it installs a newly
\* produced blueprint in f's cache; when it returns false the cached
\* blueprint and the cached object are as they were.
C8_RecompileStep ==
  \A f \in Nodes :
    (op'.name = "file_recompile" /\ op'.file = f) =>
      /\ (op'.ret = 1) <=>
           /\ fs'.blueprint[f] # fs.blueprint[f]
           /\ fs'.blueprint[f] # NULL
           /\ fs'.blueprint[f] \notin BlueprintsInUse(fs)
      /\ (op'.ret = 0) =>
           /\ fs'.blueprint = fs.blueprint
           /\ fs'.object    = fs.object

C9_RecompileFrameStep ==
  \A f \in Nodes :
    (op'.name = "file_recompile" /\ op'.file = f /\ op'.ret = 1) =>
      /\ fs'.blueprint[f] # fs.blueprint[f]
      /\ fs'.blueprint[f] \notin BlueprintsInUse(fs) \cup {NULL}
      /\ \A g \in Nodes \ {f} : fs'.blueprint[g] = fs.blueprint[g]
      /\ fs'.object  = fs.object
      /\ fs'.objBlue = fs.objBlue
      /\ fs'.nObj    = fs.nObj

C9_RecompileFrame == [][C9_RecompileFrameStep]_vars

\* After a successful recompile the node's object still has the blueprint it
\* was made from, which is no longer the node's blueprint.
C9_Witness ==
  /\ op.name = "file_recompile"
  /\ op.ret = 1
  /\ fs.object[op.file] # NULL
  /\ fs.objBlue[fs.object[op.file]] # fs.blueprint[op.file]

\* The components of a relative path: the runs of characters between its
\* '/'; a '/' at the very end ends the last component and starts none.
RECURSIVE Components(_)
Components(p) ==
  IF p = <<>> THEN <<>>
  ELSE LET slashes == { i \in 1 .. Len(p) : p[i] = "/" }
           k == IF slashes = {} THEN Len(p) + 1
                ELSE CHOOSE i \in slashes : \A j \in slashes : i <= j
       IN  << SubSeq(p, 1, k - 1) >> \o
           (IF k >= Len(p) THEN <<>> ELSE Components(SubSeq(p, k + 1, Len(p))))

\* The children of a node from the first on, as far as they are nodes.
RECURSIVE ChildrenFrom(_, _)
ChildrenFrom(f, n) ==
  IF f = NULL \/ f \notin fs.alive \/ n = 0 THEN <<>>
  ELSE <<f>> \o ChildrenFrom(fs.sibling[f], n - 1)

ChildrenOf(node) == ChildrenFrom(fs.children[node], Fuel)

\* One component applied at a node: "." stays, ".." is the parent, any other
\* component is the first child whose name is the whole component.
StepTo(node, comp) ==
  IF comp = <<".", ".">> THEN fs.parent[node]
  ELSE IF comp = <<".">> THEN node
  ELSE LET kids  == ChildrenOf(node)
           named == { i \in 1 .. Len(kids) : fs.name[kids[i]] = comp }
       IN  IF named = {} THEN NULL
           ELSE kids[CHOOSE i \in named : \A j \in named : i <= j]

\* The components applied left to right; nil ends the walk.
RECURSIVE WalkFrom(_, _)
WalkFrom(node, comps) ==
  IF node = NULL \/ comps = <<>> THEN node
  ELSE WalkFrom(StepTo(node, Head(comps)), Tail(comps))

\* A leading '/' anchors at the root.
RECURSIVE Resolved(_, _)
Resolved(start, p) ==
  IF p # <<>> /\ Head(p) = "/" THEN Resolved(Root, Tail(p))
  ELSE WalkFrom(start, Components(p))

IsAbsolute(p) == p # <<>> /\ Head(p) = "/"

\* "../" name(n) "/" q
ViaParent(n, q) == <<".", ".", "/">> \o fs.name[n] \o <<"/">> \o q

\* C10 as claimed: for every node n with a parent and every path q,
\* resolving "../" name(n) "/" q from n gives what resolving q from n gives.
C10_ViaParentAnyPath ==
  (op.name = "file_resolve" /\ fs.parent[op.file] # NULL) =>
    file_resolve(fs, op.file, ViaParent(op.file, arg)) = op.ret

\* C10, amended: file_resolve applies the components of the path left to
\* right (a leading '/' anchors at the root, "." stays, ".." is the parent,
\* any other component is the first child whose name is the whole component,
\* nil ends the walk); an absolute path resolves alike from every node; and
\* for a node n that its name resolves to from its parent and a relative
\* path q, "../" name(n) "/" q from n resolves to what q resolves to from n.
C10_Resolve ==
  (op.name = "file_resolve") =>
    /\ op.ret = Resolved(op.file, arg)
    /\ IsAbsolute(arg) =>
         \A m \in fs.alive : file_resolve(fs, m, arg) = op.ret
    /\ ( /\ fs.parent[op.file] # NULL
         /\ StepTo(fs.parent[op.file], fs.name[op.file]) = op.file
         /\ ~IsAbsolute(arg) ) =>
         file_resolve(fs, op.file, ViaParent(op.file, arg)) = op.ret

\* A relative path resolved from a node below the root to a child of it, which
\* the path through the parent reaches too, past a sibling of another name.
C10_Witness ==
  /\ op.name = "file_resolve"
  /\ fs.parent[op.file] # NULL
  /\ StepTo(fs.parent[op.file], fs.name[op.file]) = op.file
  /\ ~IsAbsolute(arg)
  /\ op.ret \in fs.alive
  /\ fs.parent[op.ret] = op.file
  /\ \E g \in fs.alive \ {op.file} :
       /\ fs.parent[g] = fs.parent[op.file]
       /\ fs.name[g] # fs.name[op.file]

\* The components of an absolute path: what lies between its '/'.
RECURSIVE SplitFrom(_, _, _)
SplitFrom(p, i, cur) ==
  IF i > Len(p) THEN << cur >>
  ELSE IF p[i] = "/" THEN << cur >> \o SplitFrom(p, i + 1, <<>>)
  ELSE SplitFrom(p, i + 1, Append(cur, p[i]))

\* A canonical absolute path: "/" for the root, else a '/' before every
\* component, no component empty, "." or "..".
Canonical(p) ==
  /\ Len(p) >= 1
  /\ p[1] = "/"
  /\ \/ Len(p) = 1
     \/ LET cs == SplitFrom(p, 2, <<>>)
        IN  \A i \in 1 .. Len(cs) :
              cs[i] # <<>> /\ cs[i] # << "." >> /\ cs[i] # << ".", "." >>

\* C11 as stated: for any canonical absolute path p that resolves to a
\* node, the root's path "/" included, file_path(file_resolve(root, p)) is p.
C11_PathOfResolvedIsPath ==
  (op.name = "file_path" /\ Canonical(arg)) => op.ret = arg

\* C11: for any canonical absolute path p other than "/" that resolves to a
\* node, file_path(file_resolve(root, p)) is p; the path file_path gives for
\* the root is the empty string.
C11_PathRoundTrip ==
  op.name = "file_path" =>
    /\ (Canonical(arg) /\ arg # << "/" >>) => op.ret = arg
    /\ op.file = Root => op.ret = <<>>

\* file_path has been applied to a node below a child of the root, found by
\* a canonical path.
C11_Witness ==
  /\ op.name = "file_path"
  /\ Canonical(arg)
  /\ op.file # Root
  /\ fs.parent[op.file] # Root

\* C12: for any path p that resolves from the root to a node n, resolving
\* file_path(n) from the root yields n.
C12_ResolveIdempotent ==
  op.name = "file_path" => file_resolve(fs, Root, op.ret) = op.file

\* file_path has been applied to a node that a relative path with a "."
\* component found, and that has a sibling of the same name.
C12_Witness ==
  /\ op.name = "file_path"
  /\ arg # <<>> /\ arg[1] # "/"
  /\ \E i \in 1 .. Len(arg) : arg[i] = "."
  /\ op.file # Root
  /\ \E n \in fs.alive \ {op.file} :
       fs.parent[n] = fs.parent[op.file] /\ fs.name[n] = fs.name[op.file]

\* C13: in every state of the file tree that file_new, file_load and
\* file_delete reach, no two children of a node have equal names, no name
\* contains '/', and the root is the only node without a parent.
C13_TreeInvariants ==
  Running =>
    /\ \A m, n \in fs.alive :
         (m # n /\ fs.parent[m] = fs.parent[n] /\ fs.parent[m] # NULL)
           => fs.name[m] # fs.name[n]
    /\ \A n \in fs.alive : \A i \in 1 .. Len(fs.name[n]) : fs.name[n][i] # "/"
    /\ \A n \in fs.alive : fs.parent[n] = NULL => n = Root

\* The nodes of `nodes` on the child list of `file`, the oldest first.
RECURSIVE MadeChildrenFrom(_, _, _)
MadeChildrenFrom(f, nodes, n) ==
  IF f = NULL \/ f \notin fs.alive \/ n = 0 THEN <<>>
  ELSE MadeChildrenFrom(fs.sibling[f], nodes, n - 1)
         \o (IF f \in nodes THEN << f >> ELSE <<>>)

MadeChildren(file, nodes) == MadeChildrenFrom(fs.children[file], nodes, Fuel)

\* The nodes of `nodes` below `file` are one for each entry of the host
\* directory, of its name, and so on below each of them.
RECURSIVE Mirrors(_, _, _)
Mirrors(file, host, nodes) ==
  LET kids == MadeChildren(file, nodes)
  IN  /\ Len(kids) = Len(host.sub)
      /\ \A i \in 1 .. Len(kids) :
           /\ fs.name[kids[i]] = host.sub[i].name
           /\ fs.parent[kids[i]] = file
           /\ Mirrors(kids[i], host.sub[i], nodes)

\* C14: file_load(file, real_path) creates exactly one node for every host
\* directory entry other than "." and "..", as a child of the node of the
\* directory that contains it, and compiles nothing: every node it created
\* has a nil blueprint cache and a nil object cache.
C14_LoadMirrorsHost ==
  op.name = "file_load" =>
    LET nodes == { op.ret[i] : i \in 1 .. Len(op.ret) }
    IN  /\ Len(op.ret) = HostSize(arg)
        /\ Cardinality(nodes) = Len(op.ret)
        /\ Mirrors(op.file, arg, nodes)
        /\ \A n \in nodes :
             n \in fs.alive /\ fs.blueprint[n] = NULL /\ fs.object[n] = NULL

\* ----------------------------------------------------- code writer claims

\* The operands, each of WcSize bytes, that follow an opcode.
OperandCount(bc) ==
  IF bc \in { RAVEN_BYTECODE("SEND"), RAVEN_BYTECODE("SUPER_SEND") } THEN 2
  ELSE IF bc \in { RAVEN_BYTECODE("LOAD_CONST"), RAVEN_BYTECODE("LOAD_ARRAY"),
                   RAVEN_BYTECODE("LOAD_MAPPING"), RAVEN_BYTECODE("LOAD_FUNCREF"),
                   RAVEN_BYTECODE("LOAD_LOCAL"), RAVEN_BYTECODE("LOAD_MEMBER"),
                   RAVEN_BYTECODE("STORE_LOCAL"), RAVEN_BYTECODE("STORE_MEMBER"),
                   RAVEN_BYTECODE("OP"), RAVEN_BYTECODE("JUMP"),
                   RAVEN_BYTECODE("JUMP_IF"), RAVEN_BYTECODE("JUMP_IF_NOT") } THEN 1
  ELSE 0

InstrLen(bc) == 1 + WcSize * OperandCount(bc)

\* The offsets at which the interpreter, started at `at`, fetches an opcode.
RECURSIVE BoundariesFrom(_, _)
BoundariesFrom(bytes, at) ==
  IF at >= Len(bytes) THEN {}
  ELSE {at} \cup BoundariesFrom(bytes, at + InstrLen(bytes[at + 1]))

Boundaries(bytes) == BoundariesFrom(bytes, 0)

\* The instruction at `at` lies in the buffer with all its operands.
Complete(bytes, at) == at + InstrLen(bytes[at + 1]) <= Len(bytes)

JumpOps ==
  { RAVEN_BYTECODE("JUMP"), RAVEN_BYTECODE("JUMP_IF"), RAVEN_BYTECODE("JUMP_IF_NOT") }

\* The opcodes whose first operand is an index into the constant pool.
ConstOps ==
  { RAVEN_BYTECODE("LOAD_CONST"), RAVEN_BYTECODE("LOAD_FUNCREF"),
    RAVEN_BYTECODE("SEND"), RAVEN_BYTECODE("SUPER_SEND") }

\* The fills at which the label was placed.
PlacementsOf(id) ==
  { i \in 1 .. Len(hist.placed) : hist.placed[i][1] = id }

\* C2: for every open label that has been placed exactly once, every jump
\* emitted against it carries, as its wide operand, the fill at which the
\* label was placed, whether the jump was emitted before the placement or
\* after it.
C2_JumpsGetPlacement ==
  \A p \in hist.open :
    Cardinality(PlacementsOf(p[2])) = 1 =>
      \A s \in hist.sites :
        s[2] = p[2] =>
          /\ s[1] + 1 + WcSize <= cw.fill
          /\ cw.bytecodes[s[1] + 1] \in JumpOps
          /\ \A i \in PlacementsOf(p[2]) :
               LoadWc(cw.bytecodes, s[1] + 1) = hist.placed[i][2]

\* C3: when codewriter_finish runs, every used entry of the label table has
\* loc == -1: no label is open and no patch site is pending.
C3_NoSlotInUseAtFinish ==
  cwop.name = "codewriter_finish" =>
    \A i \in 0 .. cw.li - 1 : LabelAt(cw, i).loc = -1

InterningEmitters ==
  { "codewriter_load_const", "codewriter_load_funcref",
    "codewriter_send", "codewriter_super_send" }

EmitterOpcode(name) ==
  CASE name = "codewriter_load_const"   -> RAVEN_BYTECODE("LOAD_CONST")
    [] name = "codewriter_load_funcref" -> RAVEN_BYTECODE("LOAD_FUNCREF")
    [] name = "codewriter_send"         -> RAVEN_BYTECODE("SEND")
    [] name = "codewriter_super_send"   -> RAVEN_BYTECODE("SUPER_SEND")

\* An emitter that interns a constant appends the value at index ci, emits
\* its opcode and that index as the wide operand after it, and
\* codewriter_write_constant returns that index; the function
\* codewriter_finish makes has no constant operand beyond its constants.
C4_InternStep ==
  /\ cwop'.name \in InterningEmitters =>
       /\ cw'.ci = cw.ci + 1
       /\ cw'.constants = Append(cw.constants, cwop'.value)
       /\ cw'.fill >= cw.fill + 1 + WcSize
       /\ cw'.bytecodes[cw.fill + 1] = EmitterOpcode(cwop'.name)
       /\ LoadWc(cw'.bytecodes, cw.fill + 1) = cw.ci
       /\ codewriter_write_constant(Begin(cw, NoAlloc), cwop'.value).ret = cw.ci
  /\ cwop'.name = "codewriter_finish" =>
       \A b \in Boundaries(cwop'.fn.bytecodes) :
         cwop'.fn.bytecodes[b + 1] \in ConstOps =>
           /\ Complete(cwop'.fn.bytecodes, b)
           /\ LoadWc(cwop'.fn.bytecodes, b + 1) < Len(cwop'.fn.constants)

\* C4: each emission that interns a constant appends the value at the next
\* index of the constant pool, emits exactly that index as the wide operand
\* and returns it; so in every function codewriter_finish makes, every
\* constant index that is an operand is below the number of constants.
C4_ConstantsInterned == [][C4_InternStep]_vars

\* C5: in the function codewriter_finish makes, the operand of every JUMP,
\* JUMP_IF and JUMP_IF_NOT is the offset of the first byte of an emitted
\* instruction: 0 <= target < fill, and target is an opcode boundary.
C5_JumpTargets ==
  cwop.name = "codewriter_finish" =>
    \A b \in Boundaries(cwop.fn.bytecodes) :
      cwop.fn.bytecodes[b + 1] \in JumpOps =>
        /\ Complete(cwop.fn.bytecodes, b)
        /\ LoadWc(cwop.fn.bytecodes, b + 1) < Len(cwop.fn.bytecodes)
        /\ LoadWc(cwop.fn.bytecodes, b + 1) \in Boundaries(cwop.fn.bytecodes)

\* The code writer operations that write to the buffer.
Emitters ==
  { "codewriter_load_self", "codewriter_load_const", "codewriter_load_array",
    "codewriter_load_mapping", "codewriter_load_funcref", "codewriter_load_local",
    "codewriter_load_member", "codewriter_store_local", "codewriter_store_member",
    "codewriter_push_self", "codewriter_push", "codewriter_pop", "codewriter_op",
    "codewriter_send", "codewriter_super_send", "codewriter_return",
    "codewriter_jump", "codewriter_jump_if", "codewriter_jump_if_not" }

\* The emitters return nothing and the writer has no field for an error, so
\* a failed allocation can only show in what the call leaves undone: a call
\* in which an allocation fails writes nothing and appends no constant, and
\* once one has failed the compile goes no further, neither emitting nor
\* finishing.
C15_Step ==
  /\ (~hist.nomem /\ hist'.nomem) => (cw'.fill = cw.fill /\ cw'.ci = cw.ci)
  /\ hist.nomem => cwop'.name \notin (Emitters \cup { "codewriter_finish" })

\* C15: when the allocation that grows the bytecode buffer fails during an
\* emission, the caller gets to know and the compile can be aborted: no byte
\* or operand is dropped while later emissions, the append to the constant
\* pool and codewriter_finish go on as if it had been written.
C15_FailureReported == [][C15_Step]_vars

\* The handle codewriter_open_label returns is not negative, its slot was
\* free (beyond the used slots, or with loc == -1) and it is the handle of
\* no label that is open.
C16_Step ==
  cwop'.name = "codewriter_open_label" =>
    /\ cwop'.ret >= 0
    /\ cwop'.ret >= cw.li \/ LabelAt(cw, cwop'.ret).loc = -1
    /\ cwop'.ret \notin OpenLabels

\* C16: codewriter_open_label always returns a non-negative handle whose
\* slot was free at the call, so two labels open at the same time never
\* share a handle; slot allocation looks at the slots 0 .. li-1 only.
C16_OpenLabelHandle == [][C16_Step]_vars

\* place_label changes the operand of a jump only if the jump was emitted
\* against the label placed; close_label leaves no slot waiting for the
\* handle it closes.
C17_Step ==
  /\ cwop'.name = "codewriter_place_label" =>
       \A s \in hist.sites :
         (s[1] + 1 + WcSize <= cw.fill
            /\ LoadWc(cw'.bytecodes, s[1] + 1) # LoadWc(cw.bytecodes, s[1] + 1))
           => s[2] = IdOf(cwop'.label)
  /\ cwop'.name = "codewriter_close_label" =>
       \A i \in 0 .. cw'.li - 1 : LabelAt(cw', i).loc # cwop'.label

\* C17: a pending jump is only ever patched with the placement offset of
\* the label it was emitted against: when a label is closed with jumps still
\* unresolved and a later open_label reuses its handle, placing the new
\* label does not overwrite the operands of the old jumps, and the stale
\* patch-site slots do not stay occupied.
C17_PatchOwnLabelOnly == [][C17_Step]_vars

\* The byte at offset k of the buffer, Unwritten where nothing was stored.
ByteAt(w, k) == IF k < Len(w.bytecodes) THEN w.bytecodes[k + 1] ELSE Unwritten

\* The slots other than the label's own whose loc is the label.
Awaiting(w, label) ==
  { i \in 0 .. w.li - 1 : i # label /\ LabelAt(w, i).loc = label }

\* The offsets of the placeholders of the slots that await the label.
Placeholders(w, label) ==
  UNION { { LabelAt(w, i).target + k : k \in 0 .. WcSize - 1 } :
          i \in Awaiting(w, label) }

C18_Step ==
  cwop'.name = "codewriter_place_label" =>
    LET L == cwop'.label
    IN  /\ ~cw'.ub
        /\ cw'.fill = cw.fill /\ cw'.alloc = cw.alloc /\ cw'.li = cw.li
        /\ \A i \in 0 .. cw.li - 1 :
             IF i \in Awaiting(cw, L)
             THEN /\ LabelAt(cw', i) = [LabelAt(cw, i) EXCEPT !.loc = -1]
                  /\ LabelAt(cw, i).target >= 0
                  /\ LabelAt(cw, i).target + WcSize <= cw.alloc
                  /\ LoadWc(cw'.bytecodes, LabelAt(cw, i).target) = AsWc(cw.fill)
             ELSE IF i = L
             THEN LabelAt(cw', i) = [LabelAt(cw, i) EXCEPT !.target = cw.fill]
             ELSE LabelAt(cw', i) = LabelAt(cw, i)
        /\ \A k \in 0 .. cw.alloc - 1 :
             k \notin Placeholders(cw, L) => ByteAt(cw', k) = ByteAt(cw, k)

\* C18: place_label(L) frees exactly the patch-site slots that await L and
\* writes the current fill over exactly their placeholders, each of them
\* inside the buffer; L's own slot stays open, every other slot is left as
\* it was, no other byte of the buffer changes and fill does not change.
C18_PlaceLabelFrame == [][C18_Step]_vars

\* InitialAlloc doubled n times.
RECURSIVE Doubled(_)
Doubled(n) == IF n = 0 THEN InitialAlloc ELSE 2 * Doubled(n - 1)

\* The slots that hold a pending patch site.
PatchSites(w) ==
  { i \in 0 .. w.li - 1 : LabelAt(w, i).loc >= 0 /\ LabelAt(w, i).loc # i }

C19_Inv ==
  ~hist.nomem =>
    /\ 0 <= cw.fill /\ cw.fill <= cw.alloc
    /\ \E n \in 0 .. MaxAllocs : cw.alloc = Doubled(n)
    /\ ~cw.ub
    /\ Len(cw.bytecodes) = cw.fill
    /\ \A k \in 0 .. cw.fill - 1 : ByteAt(cw, k) # Unwritten
    /\ \A i \in PatchSites(cw) :
         LabelAt(cw, i).target >= 0 /\ LabelAt(cw, i).target + WcSize <= cw.fill

C19_Step ==
  (~hist'.nomem /\ cw'.alloc # cw.alloc) =>
    /\ cw'.alloc = 2 * cw.alloc
    /\ \A k \in 0 .. cw.fill - 1 : ByteAt(cw', k) = ByteAt(cw, k)
    /\ \A i \in PatchSites(cw) : LabelAt(cw', i) = LabelAt(cw, i)

\* C19: while no allocation has failed, 0 <= fill <= alloc, alloc is 128
\* doubled zero or more times, every byte the writer stored (opcode, wide
\* operand, label patch) lies inside the buffer, every pending patch site
\* lies inside the emitted bytes, and a growth of the buffer keeps the bytes
\* 0 .. fill-1 and the pending patch sites as they were.
C19_BufferInvariants == []C19_Inv /\ [][C19_Step]_vars

\* A jump whose operand lies across the end of the first buffer has been
\* patched after the buffer has grown.
C19_Witness ==
  /\ ~hist.nomem
  /\ cw.alloc = 2 * InitialAlloc
  /\ cwop.name = "codewriter_place_label"
  /\ \E s \in hist.sites :
       /\ s[1] + 1 < InitialAlloc /\ s[1] + 1 + WcSize > InitialAlloc
       /\ LoadWc(cw.bytecodes, s[1] + 1) = AsWc(cw.fill)

\* The list from f over next ends after at most n live nodes.
RECURSIVE RegistryEnds(_, _)
RegistryEnds(f, n) ==
  IF f = NULL THEN TRUE
  ELSE IF n = 0 \/ f \notin fs.alive THEN FALSE
  ELSE RegistryEnds(fs.next[f], n - 1)

\* C20: after any sequence of file_new and file_delete, the list headed by
\* fs->files and linked by next holds every live node once and no deleted
\* node, every node's prev is the link that points at it, and no operation
\* has visited or freed a node that had been freed (as happens when a child
\* that is not the first of its parent is deleted and the parent after it).
C20_RegistryConsistent ==
  /\ ~fs.ub /\ ~fs.hung
  /\ Registry = fs.alive
  /\ RegistryEnds(fs.files, Cardinality(fs.alive))
  /\ \A n \in fs.alive :
       /\ fs.prev[n] = FilesLink \/ fs.prev[n] \in fs.alive
       /\ Load(fs, PrevLoc(fs.prev[n])) = n

\* The walk over the components applies ".." at the root.
RECURSIVE ClimbsFrom(_, _)
ClimbsFrom(node, comps) ==
  IF node = NULL \/ comps = <<>> THEN FALSE
  ELSE IF Head(comps) = <<".", ".">> /\ node = Root THEN TRUE
  ELSE ClimbsFrom(StepTo(node, Head(comps)), Tail(comps))

RECURSIVE Climbs(_, _)
Climbs(start, p) ==
  IF IsAbsolute(p) THEN Climbs(Root, Tail(p))
  ELSE ClimbsFrom(start, Components(p))

\* C21: ".." applied at the root is a failure: file_resolve(root, "..") is
\* nil and not the root, "/.." is nil from every node, and every path whose
\* walk applies ".." at the root resolves to nil, whatever follows.
C21_ClimbAboveRootIsNil ==
  /\ file_resolve(fs, Root, <<".", ".">>) = NULL
  /\ \A m \in fs.alive : file_resolve(fs, m, <<"/", ".", ".">>) = NULL
  /\ (op.name = "file_resolve" /\ Climbs(op.file, arg)) => op.ret = NULL

\* "/a/../.." resolved from a node below the root, in a tree where /a is
\* a node: the walk is back at the root when the second ".." is applied.
C21_Witness ==
  /\ op.name = "file_resolve"
  /\ op.file # Root
  /\ arg = <<"/", "a", "/", ".", ".", "/", ".", ".">>
  /\ StepTo(Root, <<"a">>) # NULL
  /\ Climbs(op.file, arg)
  /\ op.ret = NULL

====
